---------------------------- MODULE Spec2Model ----------------------------
(***************************************************************************)
(* A model of du.c: the recursive directory-size engine                    *)
(* (getDirectorySize, getFileSize), the visited-inode array (addInode,     *)
(* isInodeVisited) and the part of main that drives them.                  *)
(*                                                                         *)
(* The input of a run is a directory tree (with the order in which each    *)
(* directory's readdir() yields its entries) and the -a flag.  A path is   *)
(* the sequence of its components below the starting path: createPath's    *)
(* parent + "/" + child is Append(parent, child).                          *)
(*                                                                         *)
(* Machine integers keep their width (LP64: int is 32 bits, size_t and     *)
(* blkcnt_t are 64 bits).  A 64-bit word is the tuple of its four 16-bit   *)
(* limbs, least significant first; an int is the tuple of its two limbs,   *)
(* in two's complement.                                                    *)
(***************************************************************************)
EXTENDS Integers, Sequences, FiniteSets

(***************************************************************************)
(* Bounds of the model.                                                    *)
(***************************************************************************)
MaxEntries == 3     \* entries of a small tree, "." and ".." not counted
MaxIno == 2         \* inode numbers of a small tree's regular files
Names == {"a", "b"} \* entry names of a small tree

(***************************************************************************)
(* Program constants.                                                      *)
(***************************************************************************)
TRUE_ == 1
FALSE_ == 0
INODES_CAPACITY == 16

(***************************************************************************)
(* Machine arithmetic.                                                     *)
(***************************************************************************)
Base == 2^16

\* The 64-bit word of a natural number below 2^31.
W(n) == <<n % Base, n \div Base, 0, 0>>

Zero64 == W(0)

\* size_t addition: total += size, modulo 2^64.
Add64(x, y) ==
    LET s1 == x[1] + y[1]
        s2 == x[2] + y[2] + (s1 \div Base)
        s3 == x[3] + y[3] + (s2 \div Base)
        s4 == x[4] + y[4] + (s3 \div Base)
    IN  <<s1 % Base, s2 % Base, s3 % Base, s4 % Base>>

\* st_blocks / 2 on a non-negative blkcnt_t.
Half64(x) ==
    << (x[1] \div 2) + (x[2] % 2) * (Base \div 2),
       (x[2] \div 2) + (x[3] % 2) * (Base \div 2),
       (x[3] \div 2) + (x[4] % 2) * (Base \div 2),
       x[4] \div 2 >>

\* The conversion of a 64-bit value to int (a function's int return value, an
\* int variable's initialiser): the low 32 bits.
ToInt(x) == <<x[1], x[2]>>

\* The conversion of an int to size_t: sign extension.
ToSizeT(i) ==
    IF i[2] >= Base \div 2
    THEN <<i[1], i[2], Base - 1, Base - 1>>
    ELSE <<i[1], i[2], 0, 0>>

(***************************************************************************)
(* Paths.                                                                  *)
(***************************************************************************)
Root == <<>>
Parent(p) == SubSeq(p, 1, Len(p) - 1)
Last(p) == p[Len(p)]

\* createPath: parent_path, "/" and child_path concatenated.
createPath(parent_path, child_path) == Append(parent_path, child_path)

\* What the kernel makes of a path: "." stays, ".." goes up (the starting
\* path's ".." is held at the starting path: nothing above it is modelled).
RECURSIVE Resolve(_)
Resolve(p) ==
    IF p = <<>> THEN <<>>
    ELSE LET q == Resolve(Parent(p))
         IN  CASE Last(p) = "."  -> q
               [] Last(p) = ".." -> IF q = <<>> THEN <<>> ELSE Parent(q)
               [] OTHER          -> Append(q, Last(p))

(***************************************************************************)
(* The directory trees a run is given.                                     *)
(***************************************************************************)
\* The sets of at most n paths that hold, with a path of two or more
\* components, the path of its directory.
RECURSIVE EntrySetsUpTo(_)
EntrySetsUpTo(n) ==
    IF n = 0 THEN {{}}
    ELSE LET smaller == EntrySetsUpTo(n - 1)
         IN  smaller \cup
             UNION {{E \cup {Append(d, name)} : d \in {Root} \cup E, name \in Names} :
                       E \in smaller}

\* S_IFMT of each entry: a directory, a regular file, a symbolic link, a FIFO.
ModesOf(E) ==
    {m \in [E -> {"DIR", "REG", "LNK", "FIFO"}] :
        \A p \in E : Len(p) > 1 => m[Parent(p)] = "DIR"}

\* st_blocks: of a directory and of a symbolic link or FIFO, of the regular
\* file of inode i in a small tree (9, 17, ... blocks), and of a file of
\* 2 TiB (2^32 blocks).
DirBlocks == W(8)
OtherBlocks == W(8)
SmallBlocks(i) == W(8 * i + 1)
HugeBlocks(i) == <<0, 0, 1, 0>>

RegsOf(m) == {p \in DOMAIN m : m[p] = "REG"}
PathsTo(ia, i) == {p \in DOMAIN ia : ia[p] = i}
UsedInos(ia) == {ia[p] : p \in DOMAIN ia}

\* The place of a path in the order of the paths: "a" before "b", a shorter
\* path before a longer one.
RECURSIVE Rank(_)
Rank(p) == IF p = <<>> THEN 0 ELSE 3 * Rank(Parent(p)) + (IF Last(p) = "a" THEN 1 ELSE 2)

FirstPath(ia, i) == CHOOSE p \in PathsTo(ia, i) : \A q \in PathsTo(ia, i) : Rank(p) <= Rank(q)

\* The inode numbers of a tree's regular files are 1..k, given in the order of
\* each inode's first path: the program compares inode numbers for equality
\* and nothing else.
InosOf(m) ==
    {ia \in [RegsOf(m) -> 1..MaxIno] :
        /\ \E k \in 0..MaxIno : UsedInos(ia) = 1..k
        /\ \A i, j \in UsedInos(ia) :
              i < j => Rank(FirstPath(ia, i)) < Rank(FirstPath(ia, j))}

\* The link count of an inode is the number of its paths in the tree; an
\* inode with one path may have a second link outside the tree.
NlinksOf(ia) ==
    {nl \in [UsedInos(ia) -> 1..(MaxEntries + 1)] :
        \A i \in UsedInos(ia) :
            \/ nl[i] = Cardinality(PathsTo(ia, i))
            \/ nl[i] = 2 /\ Cardinality(PathsTo(ia, i)) = 1}

\* The trees of at most n entries: readdir() yields the entries of their
\* directories in any order (order fixes none).  In a small tree the regular
\* files are small, in a huge tree they are huge.
TreesOf(n, huge) ==
    UNION { UNION { UNION {
        { [mode |-> m, ino |-> ia, nlink |-> nl,
           blocks |-> [i \in UsedInos(ia) |-> IF huge THEN HugeBlocks(i) ELSE SmallBlocks(i)],
           order |-> <<>>] : nl \in NlinksOf(ia) }
        : ia \in InosOf(m) }
        : m \in ModesOf(E) }
        : E \in EntrySetsUpTo(n) }

SmallTrees == TreesOf(MaxEntries, FALSE)
HugeTrees == {t \in TreesOf(MaxEntries - 1, TRUE) : t.ino # <<>>}

\* A wide tree: one directory of INODES_CAPACITY files with two links each and
\* inodes of their own, one more file that is the second link of the first,
\* and a file with one link.  readdir() yields them in the order written, "."
\* and ".." first.
WideNames ==
    <<"h01", "h02", "h03", "h04", "h05", "h06", "h07", "h08", "h09",
      "h10", "h11", "h12", "h13", "h14", "h15", "h16", "h17", "h18">>
WideCount == INODES_CAPACITY + 2
WideIno(k) == 100 + (IF k = INODES_CAPACITY + 1 THEN 1 ELSE k)
WideTree ==
    [mode   |-> [p \in {<<WideNames[k]>> : k \in 1..WideCount} |-> "REG"],
     ino    |-> [p \in {<<WideNames[k]>> : k \in 1..WideCount} |->
                    WideIno(CHOOSE k \in 1..WideCount : WideNames[k] = p[1])],
     nlink  |-> [i \in {WideIno(k) : k \in 1..WideCount} |->
                    IF i = WideIno(WideCount) THEN 1 ELSE 2],
     blocks |-> [i \in {WideIno(k) : k \in 1..WideCount} |-> W(9)],
     order  |-> [d \in {Root} |-> <<".", "..">> \o SubSeq(WideNames, 1, WideCount)]]

Trees == SmallTrees \cup HugeTrees \cup {WideTree}

(***************************************************************************)
(* The state of a run.                                                     *)
(***************************************************************************)
VARIABLES
    fs,         \* the directory tree below the starting path
    all_files,  \* main's all_files: TRUE_ when -a or --all was given
    pc,         \* "main": before the call of getDirectorySize; "scan": in it;
                \* "done": main has returned
    stack,      \* the activations of getDirectorySize, the innermost last:
                \* path, total, the entries readdir() has yet to yield, and
                \* the entry whose recursive call is running ("" when none)
    visited,    \* the visited_inodes struct: num, cap, arr
    out,        \* the lines printSize has written: size and path
    dirps,      \* the paths of the DIR handles that are open
    heap,       \* the path strings createPath allocated that are not freed
    contrib,    \* history: curr_path -> the size its iteration added to total
    scans,      \* history: the paths opendir() was called with, in order
    failed,     \* history: the paths an opendir() or lstat() failed on
    steps       \* history: the steps taken

vars == <<fs, all_files, pc, stack, visited, out, dirps, heap, contrib, scans, failed,
          steps>>

(***************************************************************************)
(* The file system calls.                                                  *)
(***************************************************************************)
ModeAt(r) == IF r = Root THEN "DIR" ELSE fs.mode[r]
ChildNames(r) == {Last(p) : p \in {q \in DOMAIN fs.mode : Parent(q) = r}}
SubDirs(r) == {p \in DOMAIN fs.mode : Parent(p) = r /\ fs.mode[p] = "DIR"}

\* What a symbolic link points to, outside the tree: an empty directory when
\* the link is named "a", a regular file of 9 blocks otherwise.
LinkToDir(r) == ModeAt(r) = "LNK" /\ Last(r) = "a"
LinkToReg(r) == ModeAt(r) = "LNK" /\ Last(r) # "a"

\* The stat structs of a directory of the tree, of the targets of the
\* symbolic links, and of the entry at the resolved path r itself.
DirStat(r) ==
    [st_mode |-> "DIR", st_nlink |-> 2 + Cardinality(SubDirs(r)), st_ino |-> 0,
     st_blocks |-> DirBlocks]
TargetDirStat == [st_mode |-> "DIR", st_nlink |-> 2, st_ino |-> 0, st_blocks |-> DirBlocks]
TargetRegStat == [st_mode |-> "REG", st_nlink |-> 1, st_ino |-> 0, st_blocks |-> W(9)]
OwnStat(r) ==
    CASE ModeAt(r) = "DIR" -> DirStat(r)
      [] ModeAt(r) = "REG" ->
            [st_mode |-> "REG", st_nlink |-> fs.nlink[fs.ino[r]], st_ino |-> fs.ino[r],
             st_blocks |-> fs.blocks[fs.ino[r]]]
      [] OTHER ->
            [st_mode |-> ModeAt(r), st_nlink |-> 1, st_ino |-> 0, st_blocks |-> OtherBlocks]

\* A slip: stat() for lstat(), which follows a symbolic link.
stat(p) ==
    LET r == Resolve(p)
    IN  IF LinkToDir(r) THEN TargetDirStat
        ELSE IF LinkToReg(r) THEN TargetRegStat
        ELSE OwnStat(r)

\* lstat(p): a symbolic link that is the last component is not followed; one
\* before a final "." or ".." is.
lstat(p) ==
    LET r == Resolve(p)
    IN  IF p # <<>> /\ Last(p) \in {".", ".."} /\ LinkToDir(r)
        THEN TargetDirStat
        ELSE OwnStat(r)

S_ISDIR(st_mode) == st_mode = "DIR"
S_ISREG(st_mode) == st_mode = "REG"

\* The entries of the directory opendir(p) opens.
Entries(p) ==
    IF ModeAt(Resolve(p)) = "DIR" THEN {".", ".."} \cup ChildNames(Resolve(p))
    ELSE {".", ".."}

\* The entries readdir() may yield next: the first one left in the order the
\* tree fixes for the directory, and any one left when it fixes none.
NextEntries(path, todo) ==
    IF todo # {} /\ Resolve(path) \in DOMAIN fs.order
    THEN LET o == fs.order[Resolve(path)]
             i == CHOOSE k \in 1..Len(o) :
                      o[k] \in todo /\ \A j \in 1..(k - 1) : o[j] \notin todo
         IN  {o[i]}
    ELSE todo

(***************************************************************************)
(* The visited-inode array.                                                *)
(***************************************************************************)
\* What realloc() leaves in the slots it adds: no value the program wrote.
Indeterminate == 0 - 1

\* A slip: a fresh array for a grown one, the old entries not copied.
addInode_Malloc(v, inode) ==
    LET arr1 == [v.arr EXCEPT ![v.num + 1] = inode]
        num1 == v.num + 1
    IN  IF num1 = v.cap
        THEN [num |-> num1, cap |-> v.cap * 2, arr |-> [i \in 1..(v.cap * 2) |-> Indeterminate]]
        ELSE [num |-> num1, cap |-> v.cap, arr |-> arr1]

addInode(v, inode) ==
    LET arr1 == [v.arr EXCEPT ![v.num + 1] = inode]
        num1 == v.num + 1
    IN  IF num1 = v.cap
        THEN [num |-> num1, cap |-> v.cap * 2,
              arr |-> arr1 \o [i \in 1..v.cap |-> Indeterminate]]
        ELSE [num |-> num1, cap |-> v.cap, arr |-> arr1]

isInodeVisited(v, inode) ==
    IF \E i \in 1..v.num : inode = v.arr[i] THEN TRUE_ ELSE FALSE_

\* getFileSize: the int it returns and the visited struct it leaves.
getFileSize(file_stat, v) ==
    IF file_stat.st_nlink > 1
    THEN IF isInodeVisited(v, file_stat.st_ino) # 0
         THEN [size |-> ToInt(Zero64), visited |-> v]
         ELSE [size |-> ToInt(Half64(file_stat.st_blocks)),
               visited |-> addInode(v, file_stat.st_ino)]
    ELSE [size |-> ToInt(Half64(file_stat.st_blocks)), visited |-> v]

(***************************************************************************)
(* getDirectorySize and main.                                              *)
(***************************************************************************)
Top == stack[Len(stack)]

\* The frame of a call of getDirectorySize(path, ...), after opendir(path).
Frame(path) == [path |-> path, total |-> Zero64, todo |-> Entries(path), curr |-> ""]

\* A slip: the test for ".." left out.
IsDotDot_Never(entry_name) == FALSE

IsDotDot(entry_name) == entry_name = ".."
IsDot(entry_name) == entry_name = "."

printSize(path, size) == Append(out, [size |-> size, path |-> path])

\* A slip: the blocks of "." added as they are, not halved.
DotSize_NoHalf(entry_stat) == entry_stat.st_blocks

\* What the "." entry adds: total += entry_stat.st_blocks / 2.
DotSize(entry_stat) == Half64(entry_stat.st_blocks)

\* A slip: no line for a file that adds nothing.
FileLine_NonZero(curr_path, size) ==
    IF all_files = TRUE_ /\ size # Zero64 THEN printSize(curr_path, size) ELSE out

\* The output after a regular file: its line when all_files == TRUE.
FileLine(curr_path, size) ==
    IF all_files = TRUE_ THEN printSize(curr_path, size) ELSE out

\* The path main prints: with a "/" appended when trimPath trimmed one.
RootLine(slash) == IF slash = TRUE_ THEN <<"">> ELSE Root

Init ==
    /\ fs \in Trees
    /\ all_files \in {TRUE_, FALSE_}
    /\ pc = "main"
    /\ stack = <<>>
    /\ visited = [num |-> 0, cap |-> INODES_CAPACITY,
                  arr |-> [i \in 1..INODES_CAPACITY |-> 0]]
    /\ out = <<>>
    /\ dirps = {}
    /\ heap = {}
    /\ contrib = <<>>
    /\ scans = <<>>
    /\ failed = {}
    /\ steps = 0

\* contrib with the size that the iteration of curr_path added.
Added(curr_path, size) ==
    [q \in DOMAIN contrib \cup {curr_path} |-> IF q = curr_path THEN size ELSE contrib[q]]

\* The iteration of ".": its st_blocks / 2 is added, and the iteration ends at
\* the continue, before free(curr_path).
DotBody(entry_name, curr_path, entry_stat) ==
    LET size == DotSize(entry_stat)
    IN  /\ stack' = [stack EXCEPT ![Len(stack)].todo = @ \ {entry_name},
                                  ![Len(stack)].total = Add64(@, size)]
        /\ heap' = heap \cup {curr_path}
        /\ contrib' = Added(curr_path, size)
        /\ UNCHANGED <<fs, all_files, pc, visited, out, dirps, scans>>

\* The iteration of a directory, up to the call getDirectorySize(curr_path,
\* ...), whose frame is callee.
DirBody(entry_name, curr_path, callee) ==
    /\ stack' = Append([stack EXCEPT ![Len(stack)].todo = @ \ {entry_name},
                                     ![Len(stack)].curr = entry_name],
                       callee)
    /\ heap' = heap \cup {curr_path}
    /\ scans' = Append(scans, curr_path)
    /\ UNCHANGED <<fs, all_files, pc, visited, out, contrib>>

\* The iteration of a regular file: getFileSize, the line under -a, the sum,
\* free(curr_path).
FileBody(entry_name, curr_path, entry_stat) ==
    LET r == getFileSize(entry_stat, visited)
        size == ToSizeT(r.size)
    IN  /\ visited' = r.visited
        /\ out' = FileLine(curr_path, size)
        /\ stack' = [stack EXCEPT ![Len(stack)].todo = @ \ {entry_name},
                                  ![Len(stack)].total = Add64(@, size)]
        /\ contrib' = Added(curr_path, size)
        /\ UNCHANGED <<fs, all_files, pc, dirps, heap, scans>>

\* The iteration of an entry that is neither: free(curr_path) alone.
OtherBody(entry_name) ==
    /\ stack' = [stack EXCEPT ![Len(stack)].todo = @ \ {entry_name}]
    /\ UNCHANGED <<fs, all_files, pc, visited, out, dirps, heap, contrib, scans>>

\* main calls getDirectorySize(path, &visited, all_files), which opens path.
MainCall ==
    /\ pc = "main"
    /\ steps' = steps + 1
    /\ pc' = "scan"
    /\ stack' = <<Frame(Root)>>
    /\ dirps' = dirps \cup {Root}
    /\ scans' = Append(scans, Root)
    /\ UNCHANGED <<fs, all_files, visited, out, heap, contrib, failed>>

\* readdir() yields "..": the iteration ends before createPath.
SkipDotDot ==
    /\ pc = "scan"
    /\ steps' = steps + 1
    /\ \E entry_name \in NextEntries(Top.path, Top.todo) :
        /\ IsDotDot(entry_name)
        /\ stack' = [stack EXCEPT ![Len(stack)].todo = @ \ {entry_name}]
    /\ UNCHANGED <<fs, all_files, pc, visited, out, dirps, heap, contrib, scans, failed>>

\* readdir() yields ".".
CountDot ==
    /\ pc = "scan"
    /\ steps' = steps + 1
    /\ \E entry_name \in NextEntries(Top.path, Top.todo) :
        LET curr_path == createPath(Top.path, entry_name)
            entry_stat == lstat(curr_path)
        IN  /\ ~IsDotDot(entry_name)
            /\ IsDot(entry_name)
            /\ DotBody(entry_name, curr_path, entry_stat)
            /\ dirps' = dirps
    /\ UNCHANGED failed

\* A slip: the line of a directory written before its scan.
EnterDir_ReportsFirst ==
    /\ pc = "scan"
    /\ steps' = steps + 1
    /\ \E entry_name \in NextEntries(Top.path, Top.todo) :
        LET curr_path == createPath(Top.path, entry_name)
            entry_stat == lstat(curr_path)
        IN  /\ ~IsDotDot(entry_name)
            /\ ~IsDot(entry_name)
            /\ S_ISDIR(entry_stat.st_mode)
            /\ stack' = Append([stack EXCEPT ![Len(stack)].todo = @ \ {entry_name},
                                             ![Len(stack)].curr = entry_name],
                               Frame(curr_path))
            /\ heap' = heap \cup {curr_path}
            /\ scans' = Append(scans, curr_path)
            /\ dirps' = dirps \cup {curr_path}
            /\ out' = printSize(curr_path, Zero64)
    /\ UNCHANGED <<fs, all_files, pc, visited, contrib, failed>>

\* readdir() yields a directory: getDirectorySize(curr_path, ...) is called
\* and opens it.
EnterDir ==
    /\ pc = "scan"
    /\ steps' = steps + 1
    /\ \E entry_name \in NextEntries(Top.path, Top.todo) :
        LET curr_path == createPath(Top.path, entry_name)
            entry_stat == lstat(curr_path)
        IN  /\ ~IsDotDot(entry_name)
            /\ ~IsDot(entry_name)
            /\ S_ISDIR(entry_stat.st_mode)
            /\ DirBody(entry_name, curr_path, Frame(curr_path))
            /\ dirps' = dirps \cup {curr_path}
    /\ UNCHANGED failed

\* readdir() yields a regular file.
CountFile ==
    /\ pc = "scan"
    /\ steps' = steps + 1
    /\ \E entry_name \in NextEntries(Top.path, Top.todo) :
        LET curr_path == createPath(Top.path, entry_name)
            entry_stat == lstat(curr_path)
        IN  /\ ~IsDotDot(entry_name)
            /\ ~IsDot(entry_name)
            /\ ~S_ISDIR(entry_stat.st_mode)
            /\ S_ISREG(entry_stat.st_mode)
            /\ FileBody(entry_name, curr_path, entry_stat)
    /\ UNCHANGED failed

\* readdir() yields an entry that is neither.
SkipOther ==
    /\ pc = "scan"
    /\ steps' = steps + 1
    /\ \E entry_name \in NextEntries(Top.path, Top.todo) :
        LET curr_path == createPath(Top.path, entry_name)
            entry_stat == lstat(curr_path)
        IN  /\ ~IsDotDot(entry_name)
            /\ ~IsDot(entry_name)
            /\ ~S_ISDIR(entry_stat.st_mode)
            /\ ~S_ISREG(entry_stat.st_mode)
            /\ OtherBody(entry_name)
    /\ UNCHANGED failed

\* readdir() yields NULL in a recursive call: it returns total as an int (the
\* DIR handle stays open), and the caller prints the line of curr_path, adds
\* the size and frees curr_path.
ReturnToCaller ==
    /\ pc = "scan"
    /\ steps' = steps + 1
    /\ Len(stack) > 1
    /\ Top.todo = {}
    /\ LET caller == stack[Len(stack) - 1]
           curr_path == createPath(caller.path, caller.curr)
           size == ToSizeT(ToInt(Top.total))
       IN  /\ out' = printSize(curr_path, size)
           /\ stack' = [SubSeq(stack, 1, Len(stack) - 1) EXCEPT
                            ![Len(stack) - 1].total = Add64(@, size),
                            ![Len(stack) - 1].curr = ""]
           /\ heap' = heap \ {curr_path}
           /\ contrib' = Added(curr_path, size)
    /\ UNCHANGED <<fs, all_files, pc, visited, dirps, scans, failed>>

\* readdir() yields NULL in main's call: main takes the int, prints the line
\* of the starting path and frees visited.arr.  slash, trimPath's result, is
\* an input of the run that main reads here alone.
ReturnToMain ==
    /\ pc = "scan"
    /\ steps' = steps + 1
    /\ Len(stack) = 1
    /\ Top.todo = {}
    /\ \E slash \in {TRUE_, FALSE_} :
        LET size == ToInt(Top.total)
        IN  out' = printSize(RootLine(slash), ToSizeT(size))
    /\ stack' = <<>>
    /\ pc' = "done"
    /\ UNCHANGED <<fs, all_files, visited, dirps, heap, contrib, scans, failed>>

Next ==
    \/ MainCall
    \/ SkipDotDot
    \/ CountDot
    \/ EnterDir
    \/ CountFile
    \/ SkipOther
    \/ ReturnToCaller
    \/ ReturnToMain

Spec == Init /\ [][Next]_vars

(***************************************************************************)
(* Runs in which opendir() or lstat() fails.  The program checks neither.  *)
(***************************************************************************)
\* readdir(NULL) is undefined: the process dies of the NULL dereference, or
\* readdir() returns NULL and the scan finds the directory empty.
NullDirOutcomes == {"crash", "empty"}
NullFrame(path) == [path |-> path, total |-> Zero64, todo |-> {}, curr |-> ""]

\* The stat struct after a failed lstat() is not initialised: it holds what
\* the stack held, a directory's, a regular file's of one link or of two, or
\* nothing a test of the program recognises.
Garbage ==
    {[st_mode |-> "DIR", st_nlink |-> 2, st_ino |-> 0, st_blocks |-> W(8)],
     [st_mode |-> "REG", st_nlink |-> 1, st_ino |-> 1, st_blocks |-> W(9)],
     [st_mode |-> "REG", st_nlink |-> 2, st_ino |-> 1, st_blocks |-> W(9)],
     [st_mode |-> "NONE", st_nlink |-> 0, st_ino |-> 0, st_blocks |-> W(0)]}

\* opendir(path) fails in main's call (the starting path is no directory, or
\* may not be read).
MainCallOpenFails ==
    /\ pc = "main"
    /\ steps' = steps + 1
    /\ \E outcome \in NullDirOutcomes :
        IF outcome = "crash"
        THEN pc' = "crashed" /\ stack' = stack
        ELSE pc' = "scan" /\ stack' = <<NullFrame(Root)>>
    /\ scans' = Append(scans, Root)
    /\ failed' = failed \cup {Root}
    /\ UNCHANGED <<fs, all_files, visited, out, dirps, heap, contrib>>

\* opendir(curr_path) fails in a recursive call (a directory that may not be
\* read).
EnterDirOpenFails ==
    /\ pc = "scan"
    /\ steps' = steps + 1
    /\ \E entry_name \in NextEntries(Top.path, Top.todo), outcome \in NullDirOutcomes :
        LET curr_path == createPath(Top.path, entry_name)
            entry_stat == lstat(curr_path)
        IN  /\ ~IsDotDot(entry_name)
            /\ ~IsDot(entry_name)
            /\ S_ISDIR(entry_stat.st_mode)
            /\ failed' = failed \cup {curr_path}
            /\ dirps' = dirps
            /\ IF outcome = "crash"
               THEN /\ pc' = "crashed"
                    /\ heap' = heap \cup {curr_path}
                    /\ scans' = Append(scans, curr_path)
                    /\ UNCHANGED <<fs, all_files, stack, visited, out, contrib>>
               ELSE DirBody(entry_name, curr_path, NullFrame(curr_path))

\* lstat(curr_path) fails (the entry is gone, or the directory may not be
\* searched): the iteration goes on with the stat struct as it is.  What it
\* takes for a directory cannot be opened either.
StatFails ==
    /\ pc = "scan"
    /\ steps' = steps + 1
    /\ \E entry_name \in NextEntries(Top.path, Top.todo), entry_stat \in Garbage,
          outcome \in NullDirOutcomes :
        LET curr_path == createPath(Top.path, entry_name)
        IN  /\ ~IsDotDot(entry_name)
            /\ failed' = failed \cup {curr_path}
            /\ dirps' = dirps
            /\ IF IsDot(entry_name)
               THEN DotBody(entry_name, curr_path, entry_stat)
               ELSE IF S_ISDIR(entry_stat.st_mode)
               THEN IF outcome = "crash"
                    THEN /\ pc' = "crashed"
                         /\ heap' = heap \cup {curr_path}
                         /\ scans' = Append(scans, curr_path)
                         /\ UNCHANGED <<fs, all_files, stack, visited, out, contrib>>
                    ELSE DirBody(entry_name, curr_path, NullFrame(curr_path))
               ELSE IF S_ISREG(entry_stat.st_mode)
               THEN FileBody(entry_name, curr_path, entry_stat)
               ELSE OtherBody(entry_name)

ErrTrees == TreesOf(MaxEntries - 1, FALSE)

InitErr ==
    /\ Init
    /\ fs \in ErrTrees

NextErr ==
    \/ Next
    \/ MainCallOpenFails
    \/ EnterDirOpenFails
    \/ StatFails

SpecErr == InitErr /\ [][NextErr]_vars

(***************************************************************************)
(* What the properties speak of.                                           *)
(***************************************************************************)
Lines == 1..Len(out)
OutPaths == {out[k].path : k \in Lines}

\* The path a line is about: main's line, with or without "/", is about the
\* starting path.
LineDir(l) == IF l.path = <<"">> THEN Root ELSE l.path

\* p lies beneath the directory d.
Beneath(p, d) == Len(p) > Len(d) /\ SubSeq(p, 1, Len(d)) = d

HasDots(p) == \E k \in 1..Len(p) : p[k] \in {".", ".."}

TreeDirs == {Root} \cup {p \in DOMAIN fs.mode : fs.mode[p] = "DIR"}
TreeRegs == {p \in DOMAIN fs.mode : fs.mode[p] = "REG"}
TreeOthers == {p \in DOMAIN fs.mode : fs.mode[p] \notin {"DIR", "REG"}}

\* The sum, modulo 2^64, of f over S.
RECURSIVE Sum64(_, _)
Sum64(S, f) ==
    IF S = {} THEN Zero64
    ELSE LET x == CHOOSE y \in S : TRUE
         IN  Add64(f[x], Sum64(S \ {x}, f))

\* What the iterations of a frame's directory have added so far.
FrameSum(f) ==
    Sum64({q \in DOMAIN contrib : Len(q) = Len(f.path) + 1 /\ Parent(q) = f.path}, contrib)

TotalsAreSums == \A k \in 1..Len(stack) : stack[k].total = FrameSum(stack[k])

\* The allocation sizes (st_blocks / 2) of the tree's directories and inodes.
DirUnits == [d \in TreeDirs |-> Half64(DirBlocks)]
InoUnits == [i \in DOMAIN fs.blocks |-> Half64(fs.blocks[i])]

\* The allocation of the whole tree, every directory and every inode once
\* (the trees of the model stay far below 2^64), and the size_t that main
\* prints for it, having held it in an int.
TreeUnits == Add64(Sum64(TreeDirs, DirUnits), Sum64(DOMAIN fs.blocks, InoUnits))
TreeUnitsPrinted == ToSizeT(ToInt(TreeUnits))

\* The allocation of all beneath and of d itself, every path counted.
RECURSIVE ExactTotal(_)
ExactTotal(d) ==
    LET regs == {p \in TreeRegs : Parent(p) = d}
        subs == {p \in TreeDirs \ {Root} : Parent(p) = d}
    IN  Add64(Half64(DirBlocks),
              Add64(Sum64(regs, [p \in regs |-> Half64(fs.blocks[fs.ino[p]])]),
                    Sum64(subs, [p \in subs |-> ExactTotal(p)])))

\* The paths of inode i whose iteration is over.
CountedPaths(i) == {p \in DOMAIN contrib \cap DOMAIN fs.ino : fs.ino[p] = i}

(***************************************************************************)
(* The properties.                                                         *)
(***************************************************************************)

\* C1: a regular file with link count > 1 that has been reached through two or
\* more paths has added its allocation size (st_blocks / 2) exactly once: one
\* path added the full size and every other path added 0; and the total that
\* main prints holds it once.
C1_HardLinkCountedOnce ==
    /\ \A i \in DOMAIN fs.nlink :
          (fs.nlink[i] > 1 /\ Cardinality(CountedPaths(i)) >= 2) =>
              \E p \in CountedPaths(i) :
                  /\ contrib[p] = Half64(fs.blocks[i])
                  /\ \A q \in CountedPaths(i) \ {p} : contrib[q] = Zero64
    /\ (pc = "done" /\ \E i \in DOMAIN fs.nlink : Cardinality(CountedPaths(i)) >= 2) =>
          out[Len(out)].size = TreeUnits

\* C2: in a tree with no hard links, the total reported for a directory is
\* its own allocation size plus the allocation sizes of its regular files plus
\* the totals of its subdirectories.
C2_TotalIsSum ==
    (\A i \in DOMAIN fs.nlink : fs.nlink[i] = 1) =>
        \A k \in Lines :
            ModeAt(LineDir(out[k])) = "DIR" => out[k].size = ExactTotal(LineDir(out[k]))

\* C3: no line of a path beneath a directory follows the line of that
\* directory, and the line of the starting path is the last line of the run.
C3_ChildrenBeforeParent ==
    /\ \A j, k \in Lines : j < k => ~Beneath(LineDir(out[k]), LineDir(out[j]))
    /\ \A k \in Lines : LineDir(out[k]) = Root => (pc = "done" /\ k = Len(out))
    /\ pc = "done" => (Len(out) >= 1 /\ LineDir(out[Len(out)]) = Root)

C3_Witness ==
    /\ pc = "done"
    /\ \E j, k \in Lines :
          /\ j < k
          /\ k < Len(out)
          /\ Beneath(out[j].path, out[k].path)

\* C4: without -a every line is a directory's; with -a a line may be a regular
\* file's too; no path has two lines; and when the run is over every directory
\* has its line, and every regular file has one exactly when -a was given, the
\* files that added 0 included.
C4_ReportedPaths ==
    /\ \A k \in Lines :
          \/ ModeAt(LineDir(out[k])) = "DIR"
          \/ all_files = TRUE_ /\ ModeAt(LineDir(out[k])) = "REG"
    /\ \A j, k \in Lines : LineDir(out[j]) = LineDir(out[k]) => j = k
    /\ pc = "done" =>
          /\ \A d \in TreeDirs : \E k \in Lines : LineDir(out[k]) = d
          /\ \A p \in TreeRegs : (p \in OutPaths) <=> (all_files = TRUE_)

C4_Witness ==
    /\ pc = "done"
    /\ all_files = TRUE_
    /\ \E j, k \in Lines :
          /\ out[j].path \in TreeRegs
          /\ out[j].size = Zero64
          /\ out[k].path \in TreeDirs \ {Root}

\* C5: once "." has been read in a directory, its iteration has added the
\* directory's allocation size, and each total is the sum of what the
\* iterations added, each once; no line and no scan is of a path with a "."
\* or ".." component, and no iteration of ".." has added anything; the total
\* main prints holds every directory's allocation once.
C5_DotAndDotDot ==
    /\ \A k \in 1..Len(stack) :
          "." \notin stack[k].todo =>
              /\ createPath(stack[k].path, ".") \in DOMAIN contrib
              /\ contrib[createPath(stack[k].path, ".")] = Half64(DirBlocks)
    /\ TotalsAreSums
    /\ \A k \in Lines : ~HasDots(out[k].path)
    /\ \A k \in 1..Len(scans) : ~HasDots(scans[k])
    /\ \A q \in DOMAIN contrib : Last(q) # ".." /\ ~HasDots(Parent(q))
    /\ pc = "done" => out[Len(out)].size = TreeUnitsPrinted

C5_Witness ==
    /\ pc = "done"
    /\ \E d \in TreeDirs \ {Root} :
          /\ createPath(d, ".") \in DOMAIN contrib
          /\ createPath(Root, ".") \in DOMAIN contrib

\* C6: an entry that is neither a directory nor a regular file, a symbolic
\* link to a directory or to a regular file included, adds nothing, has no
\* line and is not scanned, with -a and without; each total is the sum of what
\* the other iterations added, and the total main prints holds nothing of it.
C6_OthersIgnored ==
    /\ \A p \in TreeOthers :
          /\ p \notin DOMAIN contrib
          /\ p \notin OutPaths
          /\ \A k \in 1..Len(scans) : scans[k] # p /\ ~Beneath(scans[k], p)
          /\ \A q \in DOMAIN contrib : ~Beneath(q, p)
    /\ TotalsAreSums
    /\ pc = "done" => out[Len(out)].size = TreeUnitsPrinted

C6_Witness ==
    /\ pc = "done"
    /\ all_files = TRUE_
    /\ \E p, q \in TreeOthers : LinkToDir(p) /\ LinkToReg(q)

\* The steps of a run: main's call and, for each directory, the iterations
\* of its entries, "." and ".." among them, and its return.
TotalSteps == 1 + 3 * Cardinality(TreeDirs) + Cardinality(DOMAIN fs.mode)

\* A step is possible: main's call, the iteration of an entry (one of its
\* cases holds of every entry), or the return of a scan with no entry left.
CanStep ==
    \/ pc = "main"
    \/ /\ pc = "scan"
       /\ stack # <<>>
       /\ Top.todo = {} \/ NextEntries(Top.path, Top.todo) # {}

\* C7: the run ends: until main has returned a step is possible, and no run
\* takes more steps than its tree has entries to read and scans to return
\* from; no scan is of a path with a "." or ".." component, no directory is
\* scanned twice, and the total of a directory whose only entries are "." and
\* ".." is its own allocation size.
C7_Terminates ==
    /\ pc = "done" \/ CanStep
    /\ steps <= TotalSteps
    /\ pc = "done" => steps = TotalSteps
    /\ \A k \in 1..Len(scans) : ~HasDots(scans[k])
    /\ \A j, k \in 1..Len(scans) : Resolve(scans[j]) = Resolve(scans[k]) => j = k
    /\ \A k \in Lines :
          (ModeAt(LineDir(out[k])) = "DIR" /\ Entries(LineDir(out[k])) = {".", ".."}) =>
              out[k].size = Half64(DirBlocks)

C7_Witness ==
    /\ pc = "done"
    /\ \E k \in Lines :
          /\ k < Len(out)
          /\ ModeAt(out[k].path) = "DIR"
          /\ Entries(out[k].path) = {".", ".."}

\* C8: when opendir() or lstat() fails, the run does not abort, and the path
\* it failed on adds 0.
C8_FailuresStayLocal ==
    /\ pc # "crashed"
    /\ \A p \in failed : p \in DOMAIN contrib => contrib[p] = Zero64

\* C9: a DIR handle is open only while its scan runs and a path string is
\* allocated only while its iteration runs; when the run is over, none is.
C9_ResourcesReleased ==
    /\ dirps \subseteq {stack[k].path : k \in 1..Len(stack)}
    /\ heap \subseteq {createPath(stack[k].path, stack[k].curr) :
                          k \in {j \in 1..Len(stack) : stack[j].curr # ""}}
    /\ pc = "done" => (dirps = {} /\ heap = {})

\* C10: the visited-inode array holds no inode twice, holds only inodes of
\* regular files with link count > 1 whose size has been added, stays within
\* its capacity, and no step removes or changes an entry it holds, a step
\* that doubles the capacity included.
C10_ArrayInv ==
    /\ Len(visited.arr) = visited.cap
    /\ visited.num < visited.cap
    /\ \A j, k \in 1..visited.num : visited.arr[j] = visited.arr[k] => j = k
    /\ \A k \in 1..visited.num :
          /\ visited.arr[k] \in DOMAIN fs.nlink
          /\ fs.nlink[visited.arr[k]] > 1
          /\ \E p \in CountedPaths(visited.arr[k]) :
                contrib[p] = ToSizeT(ToInt(Half64(fs.blocks[visited.arr[k]])))
    /\ \A i \in DOMAIN fs.nlink :
          (fs.nlink[i] > 1 /\ CountedPaths(i) # {}) =>
              \E k \in 1..visited.num : visited.arr[k] = i

C10_Keeps ==
    /\ visited'.num >= visited.num
    /\ \A k \in 1..visited.num : visited'.arr[k] = visited.arr[k]

C10_VisitedArray == []C10_ArrayInv /\ [][C10_Keeps]_vars

C10_Witness ==
    /\ pc = "done"
    /\ visited.cap = 2 * INODES_CAPACITY
    /\ \E p \in CountedPaths(visited.arr[1]) : contrib[p] = Zero64
    /\ \E p \in TreeRegs : fs.nlink[fs.ino[p]] = 1
=============================================================================
